---- MODULE Spec2Model ----
(***************************************************************************)
(* Task orchestration of idea-factory-manager: the task store              *)
(* (agent_tasks), the tasks router mutations, the agent runner's polling   *)
(* loop and pipeline (scripts/agent-runner.ts) and the review workflow     *)
(* handler (scripts/review-workflow.ts).                                   *)
(***************************************************************************)
EXTENDS Integers, Sequences, FiniteSets, TLC

(* ---------------------------------------------------------------- bounds *)
\* Number of task rows that can be inserted.
MaxTasks == 2
\* Number of task rows in the runs that explore every behaviour of the agent, git,
\* gh and Dokploy, that have two agent runners, or that have the review workflow
\* handler.
MaxTasksDetail == 1
\* Number of review workflow handler runs.
MaxRuns == 1
MaxReruns == 2

TaskIds == 1..MaxTasks
EngineIds == {1, 2}

(* ---------------------------------------------------------------- values *)
\* A nullable column that holds no value.
NULL == "null"
\* An optional property that is absent from an object literal.
UNDEF == "undef"
NULLN == -1
UNDEFN == -2

Statuses == {"pending", "running", "completed", "failed", "cancelled", "review"}

\* PROJECT_APP_IDS: the project paths with a Dokploy application id, and one without.
MappedPath == "/home/zzula/projects/idea-factory-manager"
OtherPath == "/home/zzula/projects/other"
ProjectPaths == {MappedPath, OtherPath}
PROJECT_APP_IDS == [p \in {MappedPath} |-> "VmkFm8AScDwiiX0KNyNKL"]
HasAppId(p) == p \in DOMAIN PROJECT_APP_IDS

VARIABLES
  tasks,      \* the agent_tasks table: id -> row, status "absent" before the insert
  clock,      \* number of rows inserted so far (the source of createdAt)
  apiKey,     \* DOKPLOY_API_KEY is set
  engines,    \* the agent runner processes that are running
  pc,         \* engine -> position in main/processTask
  cur,        \* engine -> the task returned by getNextTask (0: none)
  loc,        \* engine -> result, gitResult, previewResult of the task in hand
  ops,        \* task -> the external operations the engine ran for it, in order
  agentRuns,  \* task -> the engines that invoked the agent for it
  approved,   \* tasks the approve mutation was applied to
  merged,     \* task -> number of merges of its branch into main that were pushed
  deployed,   \* task -> number of production deployments triggered for it
  rpc,        \* position of the review workflow handler
  rqueue,     \* the rows of the handler's findMany that it has still to process
  runs,       \* handler runs started
  seenReview, \* tasks that a task list query has returned with status review
  limit,      \* number of rows the run inserts
  profile,    \* which behaviours of the agent, git, gh and Dokploy are explored
  rops,       \* task -> what the review workflow handler ran when it last processed it
  repo,       \* task -> what the handler's runs have done to its branch and preview
  work        \* the uncommitted edits in each working directory and the edits in each task's commit

vars == <<tasks, clock, apiKey, engines, pc, cur, loc, ops, agentRuns, approved,
          merged, deployed, rpc, rqueue, runs, seenReview, limit, profile, rops, repo, work>>

(* ------------------------------------------------------------ task store *)
\* agentTasks: the columns and their defaults.
NewRow(path, at) ==
  [status |-> "pending", projectPath |-> path,
   output |-> NULL, error |-> NULL, branchName |-> NULL, commitHash |-> NULL,
   prUrl |-> NULL, prNumber |-> NULLN, previewUrl |-> NULL,
   previewDeploymentId |-> NULL, startedAt |-> FALSE, completedAt |-> FALSE,
   createdAt |-> at]

AbsentRow == [NewRow(OtherPath, 0) EXCEPT !.status = "absent"]

Exists(t) == tasks[t].status # "absent"

\* The properties an `extra` argument of updateTaskStatus can carry.
NoExtra ==
  [output |-> UNDEF, error |-> UNDEF, branchName |-> UNDEF, commitHash |-> UNDEF,
   prUrl |-> UNDEF, prNumber |-> UNDEFN, previewUrl |-> UNDEF,
   previewDeploymentId |-> UNDEF]

\* .set(updateData): a property that is undefined leaves its column alone.
Defined(f, v) == IF f = "prNumber" THEN v # UNDEFN ELSE v # UNDEF

SetColumns(row, data) ==
  [f \in DOMAIN row |->
     IF f \in DOMAIN data /\ Defined(f, data[f]) THEN data[f] ELSE row[f]]

updateTaskStatusOnly(row, status, extra) ==
  [row EXCEPT
     !.status = status,
     !.startedAt = IF status = "running" THEN TRUE ELSE @,
     !.completedAt = IF status \in {"completed", "failed"} THEN TRUE ELSE @]

\* updateTaskStatus: one UPDATE ... WHERE id = id with status, extra and the stamps.
updateTaskStatus(row, status, extra) ==
  [SetColumns(row, extra) EXCEPT
     !.status = status,
     !.startedAt = IF status = "running" THEN TRUE ELSE @,
     !.completedAt = IF status \in {"completed", "failed"} THEN TRUE ELSE @]

Pending == {t \in TaskIds : tasks[t].status = "pending"}

getNextTaskUnordered == Pending

getNextTaskUnfinished ==
  LET open == {t \in TaskIds : tasks[t].status \in {"pending", "running"}}
  IN {t \in open : \A u \in open : tasks[t].createdAt <= tasks[u].createdAt}

\* getNextTask: findFirst where status = pending, order by createdAt.
getNextTask ==
  {t \in Pending : \A u \in Pending : tasks[t].createdAt <= tasks[u].createdAt}

(* ----------------------------------------------------------- agent run *)
Stdouts == {"", "agent stdout"}
Stderrs == {"", "model error"}

\* What the spawned agent process can do: close with a code, or fail to launch.
AgentOutcomes ==
  [kind : {"close"}, code : {0, 1}, stdout : Stdouts, stderr : Stderrs, message : {""}]
  \cup [kind : {"error"}, code : {0}, stdout : {""}, stderr : {""},
        message : {"spawn opencode ENOENT"}]

\* The agent behaviours explored under a profile: all of them, or one success
\* and one failure.
AgentOutcomesIn(p) ==
  IF p = "full" THEN AgentOutcomes
  ELSE {o \in AgentOutcomes :
          /\ o.kind = "close"
          /\ o.stdout = "agent stdout"
          /\ o.stderr = (IF o.code = 0 THEN "" ELSE "model error")
          /\ (p \in {"review", "preview", "handler", "rerun", "base", "shared"} => o.code = 0)}

ExitCodeText(code) == IF code = 1 THEN "Exit code: 1" ELSE "Exit code: 0"

\* a || b on strings: the first operand unless it is empty.
OrElse(a, b) == IF a # "" THEN a ELSE b

runAgentNoFallback(o) ==
  IF o.kind = "close"
    THEN IF o.code = 0
           THEN [success |-> TRUE, output |-> o.stdout, error |-> UNDEF]
           ELSE [success |-> FALSE, output |-> o.stdout, error |-> o.stderr]
    ELSE [success |-> FALSE, output |-> o.stdout, error |-> o.message]

\* runAgent: the object the promise resolves to.
runAgent(o) ==
  IF o.kind = "close"
    THEN IF o.code = 0
           THEN [success |-> TRUE, output |-> o.stdout, error |-> UNDEF]
           ELSE [success |-> FALSE, output |-> o.stdout,
                 error |-> OrElse(o.stderr, ExitCodeText(o.code))]
    ELSE [success |-> FALSE, output |-> o.stdout, error |-> o.message]

NoResult == [success |-> FALSE, output |-> UNDEF, error |-> UNDEF]

(* ------------------------------------------------- git and pull request *)
\* The feature branch name derived from the task id: agent/<id>-<slug>.
featureBranch(t) == "agent/" \o ToString(t)

\* What `gh pr create` can do: close with a code, or fail to launch.
PrUrl == "https://github.com/o/r/pull/7"
CompareUrl == "https://github.com/o/r/pull/new/agent/1"
\* The trimmed stdout of a `gh pr create` that exits with 0.
PrUrls == {PrUrl, CompareUrl}
PrOutcomes ==
  [kind : {"close"}, code : {0}, stdout : PrUrls, stderr : {""}, message : {""}]
  \cup [kind : {"close"}, code : {1}, stdout : {""}, stderr : {"", "gh: not logged in"},
        message : {""}]
  \cup [kind : {"error"}, code : {0}, stdout : {""}, stderr : {""},
        message : {"spawn gh ENOENT"}]

\* The text between the slashes of an output, in order.
Segments(url) ==
  CASE url = PrUrl -> <<"https:", "", "github.com", "o", "r", "pull", "7">>
    [] url = CompareUrl -> <<"https:", "", "github.com", "o", "r", "pull", "new", "agent", "1">>
    [] OTHER -> <<url>>

\* parseInt(s, 10) of the digits a segment starts with; UNDEFN if it starts with none.
LeadingNumber(segment) ==
  CASE segment = "7" -> 7
    [] segment = "1" -> 1
    [] OTHER -> UNDEFN

\* prUrl.match(/\/pull\/(\d+)/) and parseInt of the group: the first "/pull/"
\* that digits follow gives the number, and no match gives undefined.
PullNumber(url) ==
  LET s == Segments(url)
      hits == {i \in 2..(Len(s) - 1) : s[i] = "pull" /\ LeadingNumber(s[i + 1]) # UNDEFN}
  IN IF hits = {} THEN UNDEFN
     ELSE LeadingNumber(s[(CHOOSE i \in hits : \A j \in hits : i <= j) + 1])

\* createPullRequest: the object the promise resolves to.
createPullRequest(o) ==
  IF o.kind = "close"
    THEN IF o.code = 0
           THEN [success |-> TRUE, prUrl |-> o.stdout, prNumber |-> PullNumber(o.stdout),
                 error |-> UNDEF]
           ELSE [success |-> FALSE, prUrl |-> UNDEF, prNumber |-> UNDEFN,
                 error |-> OrElse(o.stderr, OrElse(o.stdout, ExitCodeText(o.code)))]
    ELSE [success |-> FALSE, prUrl |-> UNDEF, prNumber |-> UNDEFN, error |-> o.message]

\* What the git commands of one commitAndPush call can do. A field that the call
\* does not get to is held at its first value.
StatusOutputs == {"", " M README.md"}
\* What a git command that exits with a non-zero code has written.
GitFailure == "fatal: unable to proceed"
HashOutputs == {"abc1234", ""}
NoPr == [kind |-> "error", code |-> 0, stdout |-> "", stderr |-> "",
         message |-> "spawn gh ENOENT"]
GitOutcome(status, checkout, add, commit, hash, push, pr) ==
  [status |-> status, checkout |-> checkout, add |-> add, commit |-> commit,
   hash |-> hash, push |-> push, pr |-> pr]
GitOutcomes ==
  {GitOutcome("", TRUE, TRUE, TRUE, "abc1234", TRUE, NoPr)}
  \cup {GitOutcome(" M README.md", FALSE, TRUE, TRUE, "abc1234", TRUE, NoPr)}
  \cup {GitOutcome(" M README.md", TRUE, FALSE, TRUE, "abc1234", TRUE, NoPr)}
  \cup {GitOutcome(" M README.md", TRUE, TRUE, FALSE, "abc1234", TRUE, NoPr)}
  \cup {GitOutcome(" M README.md", TRUE, TRUE, TRUE, h, FALSE, NoPr) : h \in HashOutputs}
  \cup {GitOutcome(" M README.md", TRUE, TRUE, TRUE, h, TRUE, o) :
          h \in HashOutputs, o \in PrOutcomes}

\* The git and gh behaviours explored under a profile: all of them, or a clean
\* tree, a failed checkout -b, a failed push and a push with and without a PR.
GitStepsIn(p) ==
  IF p = "full" THEN GitOutcomes
  ELSE {g \in GitOutcomes :
          /\ g.add /\ g.commit /\ g.hash = "abc1234"
          /\ g.pr.code = 0 /\ g.pr.stdout # CompareUrl
          /\ (p \in {"review", "handler", "rerun", "base", "shared"}
                => g.checkout /\ (g.push /\ g.status # "" => g.pr.kind = "close"))
          /\ (p \in {"preview", "rerun", "base", "shared"} => g.status # "" /\ g.checkout /\ g.push)
          /\ (p = "tree" => g.checkout /\ g.push /\ g.pr.kind = "close")}

\* The branch the working directory is on when commitAndPush starts, as
\* `git rev-parse --abbrev-ref HEAD` prints it.
HeadBranches == {"main", "develop"}
HeadBranchesIn(p) == IF p = "base" THEN HeadBranches ELSE {"main"}

\* The behaviours of one commitAndPush call: the branch it starts on and what its
\* commands do.
GitOutcomesIn(p) == {[head |-> b] @@ g : b \in HeadBranchesIn(p), g \in GitStepsIn(p)}

GitResult(ok, branch, hash, url, num, err) ==
  [success |-> ok, branchName |-> branch, commitHash |-> hash, prUrl |-> url,
   prNumber |-> num, error |-> err]

NoGitResult == GitResult(FALSE, UNDEF, UNDEF, UNDEF, UNDEFN, UNDEF)

\* One spawned command and what it resolved to: the exit status and the captured text.
Cmd(cmd, ok, out, err) == [cmd |-> cmd, ok |-> ok, out |-> out, err |-> err]

commitAndPushNoReturn(t, g) ==
  LET fb == featureBranch(t)
      status == <<Cmd("git status", TRUE, g.status, "")>>
      head == <<Cmd("git rev-parse --abbrev-ref HEAD", TRUE, g.head, "")>>
      said(ok) == IF ok THEN "" ELSE GitFailure
      checkout == <<Cmd("git checkout -b", g.checkout, said(g.checkout), "")>>
      add == <<Cmd("git add", g.add, said(g.add), "")>>
      commit == <<Cmd("git commit", g.commit, said(g.commit), "")>>
      hash == <<Cmd("git rev-parse HEAD", TRUE, g.hash, "")>>
      push == <<Cmd("git push", g.push, said(g.push), "")>>
      back == <<Cmd("git checkout base", TRUE, "", "")>>
  IN
  IF g.status = ""
    THEN [res |-> GitResult(TRUE, UNDEF, UNDEF, UNDEF, UNDEFN, UNDEF),
          log |-> status]
  ELSE IF ~g.checkout
    THEN [res |-> GitResult(FALSE, UNDEF, UNDEF, UNDEF, UNDEFN,
                          "Failed to create branch: " \o said(g.checkout)),
          log |-> status \o head \o checkout]
  ELSE IF ~g.add
    THEN [res |-> GitResult(FALSE, UNDEF, UNDEF, UNDEF, UNDEFN,
                          "Failed to stage changes: " \o said(g.add)),
          log |-> status \o head \o checkout \o add \o back]
  ELSE IF ~g.commit
    THEN [res |-> GitResult(FALSE, UNDEF, UNDEF, UNDEF, UNDEFN,
                          "Failed to commit: " \o said(g.commit)),
          log |-> status \o head \o checkout \o add \o commit \o back]
  ELSE IF ~g.push
    THEN [res |-> GitResult(FALSE, fb, g.hash, UNDEF, UNDEFN,
                          "Failed to push: " \o said(g.push)),
          log |-> status \o head \o checkout \o add \o commit \o hash \o push]
  ELSE LET prResult == createPullRequest(g.pr)
           log == status \o head \o checkout \o add \o commit \o hash \o push
                  \o <<Cmd("gh pr create", prResult.success, g.pr.stdout,
                        IF g.pr.kind = "close" THEN g.pr.stderr ELSE g.pr.message)>> \o back
       IN IF ~prResult.success
            THEN [res |-> GitResult(TRUE, fb, g.hash, UNDEF, UNDEFN,
                                    "Branch pushed but PR creation failed: "
                                      \o prResult.error),
                  log |-> log]
            ELSE [res |-> GitResult(TRUE, fb, g.hash, prResult.prUrl, prResult.prNumber,
                                    UNDEF),
                  log |-> log]

commitAndPushPrFatal(t, g) ==
  LET fb == featureBranch(t)
      status == <<Cmd("git status", TRUE, g.status, "")>>
      head == <<Cmd("git rev-parse --abbrev-ref HEAD", TRUE, g.head, "")>>
      said(ok) == IF ok THEN "" ELSE GitFailure
      checkout == <<Cmd("git checkout -b", g.checkout, said(g.checkout), "")>>
      add == <<Cmd("git add", g.add, said(g.add), "")>>
      commit == <<Cmd("git commit", g.commit, said(g.commit), "")>>
      hash == <<Cmd("git rev-parse HEAD", TRUE, g.hash, "")>>
      push == <<Cmd("git push", g.push, said(g.push), "")>>
      back == <<Cmd("git checkout base", TRUE, "", "")>>
  IN
  IF g.status = ""
    THEN [res |-> GitResult(TRUE, UNDEF, UNDEF, UNDEF, UNDEFN, UNDEF),
          log |-> status]
  ELSE IF ~g.checkout
    THEN [res |-> GitResult(FALSE, UNDEF, UNDEF, UNDEF, UNDEFN,
                          "Failed to create branch: " \o said(g.checkout)),
          log |-> status \o head \o checkout]
  ELSE IF ~g.add
    THEN [res |-> GitResult(FALSE, UNDEF, UNDEF, UNDEF, UNDEFN,
                          "Failed to stage changes: " \o said(g.add)),
          log |-> status \o head \o checkout \o add \o back]
  ELSE IF ~g.commit
    THEN [res |-> GitResult(FALSE, UNDEF, UNDEF, UNDEF, UNDEFN,
                          "Failed to commit: " \o said(g.commit)),
          log |-> status \o head \o checkout \o add \o commit \o back]
  ELSE IF ~g.push
    THEN [res |-> GitResult(FALSE, fb, g.hash, UNDEF, UNDEFN,
                          "Failed to push: " \o said(g.push)),
          log |-> status \o head \o checkout \o add \o commit \o hash \o push \o back]
  ELSE LET prResult == createPullRequest(g.pr)
           log == status \o head \o checkout \o add \o commit \o hash \o push
                  \o <<Cmd("gh pr create", prResult.success, g.pr.stdout,
                        IF g.pr.kind = "close" THEN g.pr.stderr ELSE g.pr.message)>> \o back
       IN IF ~prResult.success
            THEN [res |-> GitResult(FALSE, fb, g.hash, UNDEF, UNDEFN,
                                    "Branch pushed but PR creation failed: "
                                      \o prResult.error),
                  log |-> log]
            ELSE [res |-> GitResult(TRUE, fb, g.hash, prResult.prUrl, prResult.prNumber,
                                    UNDEF),
                  log |-> log]

\* commitAndPush: the object it returns (res) and the commands it ran (log).
commitAndPush(t, g) ==
  LET fb == featureBranch(t)
      status == <<Cmd("git status", TRUE, g.status, "")>>
      head == <<Cmd("git rev-parse --abbrev-ref HEAD", TRUE, g.head, "")>>
      said(ok) == IF ok THEN "" ELSE GitFailure
      checkout == <<Cmd("git checkout -b", g.checkout, said(g.checkout), "")>>
      add == <<Cmd("git add", g.add, said(g.add), "")>>
      commit == <<Cmd("git commit", g.commit, said(g.commit), "")>>
      hash == <<Cmd("git rev-parse HEAD", TRUE, g.hash, "")>>
      push == <<Cmd("git push", g.push, said(g.push), "")>>
      back == <<Cmd("git checkout base", TRUE, "", "")>>
  IN
  IF g.status = ""
    THEN [res |-> GitResult(TRUE, UNDEF, UNDEF, UNDEF, UNDEFN, UNDEF),
          log |-> status]
  ELSE IF ~g.checkout
    THEN [res |-> GitResult(FALSE, UNDEF, UNDEF, UNDEF, UNDEFN,
                          "Failed to create branch: " \o said(g.checkout)),
          log |-> status \o head \o checkout]
  ELSE IF ~g.add
    THEN [res |-> GitResult(FALSE, UNDEF, UNDEF, UNDEF, UNDEFN,
                          "Failed to stage changes: " \o said(g.add)),
          log |-> status \o head \o checkout \o add \o back]
  ELSE IF ~g.commit
    THEN [res |-> GitResult(FALSE, UNDEF, UNDEF, UNDEF, UNDEFN,
                          "Failed to commit: " \o said(g.commit)),
          log |-> status \o head \o checkout \o add \o commit \o back]
  ELSE IF ~g.push
    THEN [res |-> GitResult(FALSE, fb, g.hash, UNDEF, UNDEFN,
                          "Failed to push: " \o said(g.push)),
          log |-> status \o head \o checkout \o add \o commit \o hash \o push \o back]
  ELSE LET prResult == createPullRequest(g.pr)
           log == status \o head \o checkout \o add \o commit \o hash \o push
                  \o <<Cmd("gh pr create", prResult.success, g.pr.stdout,
                        IF g.pr.kind = "close" THEN g.pr.stderr ELSE g.pr.message)>> \o back
       IN IF ~prResult.success
            THEN [res |-> GitResult(TRUE, fb, g.hash, UNDEF, UNDEFN,
                                    "Branch pushed but PR creation failed: "
                                      \o prResult.error),
                  log |-> log]
            ELSE [res |-> GitResult(TRUE, fb, g.hash, prResult.prUrl, prResult.prNumber,
                                    UNDEF),
                  log |-> log]

\* JavaScript truthiness of an optional string.
Truthy(v) == v \notin {UNDEF, NULL, ""}

(* ------------------------------------------------------- preview wait *)
\* maxWaitSeconds as processTask passes it, and pollInterval, in seconds.
MaxWaitSeconds == 30
PollIntervalSeconds == 5

\* What one poll of previewDeployment.all can show: an OK response that lists a
\* preview for the branch (with or without a domain), an OK response that lists
\* none, a response that is not OK, or a fetch that throws.
PreviewOutcomes ==
  [kind : {"found"}, domain : {"", "preview.example.com"}]
  \cup [kind : {"none", "notok", "throw"}, domain : {""}]

\* The polls explored under a profile after `waited` seconds: every outcome at every
\* poll, or a preview at the first poll and none at the later ones.
PreviewOutcomesIn(p, waited) ==
  IF p = "preview" THEN PreviewOutcomes
  ELSE {o \in PreviewOutcomes :
          /\ o.kind \in {"found", "none"}
          /\ o.kind = "found" => waited = 0 /\ (p # "full" => o.domain # "")
          /\ p \in {"rerun", "base", "tree", "shared"} => o.kind = "found"}

PreviewResult(url, id) == [success |-> TRUE, previewUrl |-> url, deploymentId |-> id]

NoPreviewResult == PreviewResult(UNDEF, UNDEF)

previewDeploymentId(branch) == "preview of " \o branch

\* waitForPreviewDeployment: the two early returns.
PreviewSkipped(projectPath, key) == ~HasAppId(projectPath) \/ ~key

\* waitForPreviewDeployment: the object returned for a preview that previews.find found.
PreviewFound(branchName, o) ==
  PreviewResult(OrElse(o.domain, "Preview for " \o branchName),
                previewDeploymentId(branchName))

\* waitForPreviewDeployment: one request of the loop as the log keeps it.
PreviewPollCmd(branchName, o) ==
  Cmd("previewDeployment.all", o.kind \in {"found", "none"},
      IF o.kind = "found" THEN previewDeploymentId(branchName) ELSE "", "")

(* ------------------------------------------------------- agent runner *)
NoLoc ==
  [result |-> NoResult, git |-> NoGitResult, preview |-> NoPreviewResult, waited |-> 0,
   thrown |-> UNDEF]

FinalStatusNeedsPr(l) ==
  IF l.result.success
    THEN IF l.git.success /\ Truthy(l.git.commitHash) /\ Truthy(l.git.prUrl) THEN "review"
         ELSE IF l.git.success /\ ~Truthy(l.git.commitHash) THEN "completed"
         ELSE "failed"
    ELSE "failed"

FinalStatusNoHashCheck(l) ==
  IF l.result.success
    THEN IF l.git.success THEN "review" ELSE "failed"
    ELSE "failed"

FinalStatusRequeue(l) ==
  IF l.result.success
    THEN IF l.git.success /\ Truthy(l.git.commitHash) THEN "review"
         ELSE IF l.git.success THEN "completed"
         ELSE "failed"
    ELSE "pending"

\* processTask: the status of its last updateTaskStatus call.
FinalStatus(l) ==
  IF l.result.success
    THEN IF l.git.success /\ Truthy(l.git.commitHash) THEN "review"
         ELSE IF l.git.success THEN "completed"
         ELSE "failed"
    ELSE "failed"

FinalExtraFailedBare(l) ==
  IF l.result.success
    THEN IF l.git.success /\ Truthy(l.git.commitHash)
           THEN [NoExtra EXCEPT !.output = l.result.output,
                                !.branchName = l.git.branchName,
                                !.commitHash = l.git.commitHash,
                                !.prUrl = l.git.prUrl,
                                !.prNumber = l.git.prNumber,
                                !.previewUrl = l.preview.previewUrl,
                                !.previewDeploymentId = l.preview.deploymentId]
         ELSE IF l.git.success
           THEN [NoExtra EXCEPT !.output = l.result.output]
         ELSE [NoExtra EXCEPT !.output = l.result.output, !.error = l.git.error]
    ELSE [NoExtra EXCEPT !.output = l.result.output, !.error = l.result.error]

FinalExtraBranchOnly(l) ==
  IF l.result.success
    THEN IF l.git.success /\ Truthy(l.git.commitHash)
           THEN [NoExtra EXCEPT !.output = l.result.output,
                                !.branchName = l.git.branchName,
                                !.commitHash = l.git.commitHash,
                                !.prUrl = l.git.prUrl,
                                !.prNumber = l.git.prNumber,
                                !.previewUrl = l.preview.previewUrl,
                                !.previewDeploymentId = l.preview.deploymentId]
         ELSE IF l.git.success
           THEN [NoExtra EXCEPT !.output = l.result.output]
         ELSE [NoExtra EXCEPT !.output = l.result.output,
                              !.error = l.git.error,
                              !.branchName = l.git.branchName]
    ELSE [NoExtra EXCEPT !.output = l.result.output, !.error = l.result.error]

FinalExtraNoBranch(l) ==
  IF l.result.success
    THEN IF l.git.success /\ Truthy(l.git.commitHash)
           THEN [NoExtra EXCEPT !.output = l.result.output,
                                !.prUrl = l.git.prUrl,
                                !.prNumber = l.git.prNumber,
                                !.previewUrl = l.preview.previewUrl,
                                !.previewDeploymentId = l.preview.deploymentId]
         ELSE IF l.git.success
           THEN [NoExtra EXCEPT !.output = l.result.output]
         ELSE [NoExtra EXCEPT !.output = l.result.output,
                              !.error = l.git.error,
                              !.branchName = l.git.branchName,
                              !.commitHash = l.git.commitHash]
    ELSE [NoExtra EXCEPT !.output = l.result.output, !.error = l.result.error]

FinalExtraNoOutput(l) ==
  IF l.result.success
    THEN IF l.git.success /\ Truthy(l.git.commitHash)
           THEN [NoExtra EXCEPT !.output = l.result.output,
                                !.branchName = l.git.branchName,
                                !.commitHash = l.git.commitHash,
                                !.prUrl = l.git.prUrl,
                                !.prNumber = l.git.prNumber,
                                !.previewUrl = l.preview.previewUrl,
                                !.previewDeploymentId = l.preview.deploymentId]
         ELSE IF l.git.success
           THEN NoExtra
         ELSE [NoExtra EXCEPT !.output = l.result.output,
                              !.error = l.git.error,
                              !.branchName = l.git.branchName,
                              !.commitHash = l.git.commitHash]
    ELSE [NoExtra EXCEPT !.output = l.result.output, !.error = l.result.error]

\* processTask: the extra of its last updateTaskStatus call.
FinalExtra(l) ==
  IF l.result.success
    THEN IF l.git.success /\ Truthy(l.git.commitHash)
           THEN [NoExtra EXCEPT !.output = l.result.output,
                                !.branchName = l.git.branchName,
                                !.commitHash = l.git.commitHash,
                                !.prUrl = l.git.prUrl,
                                !.prNumber = l.git.prNumber,
                                !.previewUrl = l.preview.previewUrl,
                                !.previewDeploymentId = l.preview.deploymentId]
         ELSE IF l.git.success
           THEN [NoExtra EXCEPT !.output = l.result.output]
         ELSE [NoExtra EXCEPT !.output = l.result.output,
                              !.error = l.git.error,
                              !.branchName = l.git.branchName,
                              !.commitHash = l.git.commitHash]
    ELSE [NoExtra EXCEPT !.output = l.result.output, !.error = l.result.error]

\* main: const task = await getNextTask(); the loop sleeps when there is none.
Poll(e) ==
  /\ pc[e] = "poll"
  /\ \E t \in getNextTask :
       /\ cur' = [cur EXCEPT ![e] = t]
       /\ pc' = [pc EXCEPT ![e] = "claim"]
  /\ UNCHANGED <<tasks, clock, apiKey, engines, loc, ops, agentRuns, approved,
                 merged, deployed, rpc, rqueue, runs, seenReview, limit, profile, rops, repo, work>>

ClaimNotAwaited(e) ==
  /\ pc[e] = "claim"
  /\ tasks' = [tasks EXCEPT ![cur[e]] = updateTaskStatus(@, "running", NoExtra)]
  /\ pc' = [pc EXCEPT ![e] = "poll"]
  /\ cur' = [cur EXCEPT ![e] = 0]
  /\ UNCHANGED <<clock, apiKey, engines, loc, ops, agentRuns, approved,
                 merged, deployed, rpc, rqueue, runs, seenReview, limit, profile, rops, repo, work>>

\* processTask: await updateTaskStatus(task.id, 'running').
Claim(e) ==
  /\ pc[e] = "claim"
  /\ tasks' = [tasks EXCEPT ![cur[e]] = updateTaskStatus(@, "running", NoExtra)]
  /\ pc' = [pc EXCEPT ![e] = "agent"]
  /\ UNCHANGED <<clock, apiKey, engines, cur, loc, ops, agentRuns, approved,
                 merged, deployed, rpc, rqueue, runs, seenReview, limit, profile, rops, repo, work>>

\* Whether the agent run has edited files of the working directory; the edits are
\* followed under the profile that explores them.
TracksTree(p) == p = "tree"
EditsIn(p) == IF TracksTree(p) THEN BOOLEAN ELSE {FALSE}

\* processTask: const result = await runAgent(task).
RunAgent(e) ==
  /\ pc[e] = "agent"
  /\ \E o \in AgentOutcomesIn(profile), edited \in EditsIn(profile) :
       LET result == runAgent(o) IN
       /\ loc' = [loc EXCEPT ![e].result = result]
       /\ work' = [work EXCEPT !.tree[tasks[cur[e]].projectPath] =
                                  IF edited THEN @ \cup {cur[e]} ELSE @]
       /\ ops' = [ops EXCEPT ![cur[e]] =
                    Append(@, Cmd("opencode", o.kind = "close" /\ o.code = 0, o.stdout,
                                  IF o.kind = "close" THEN o.stderr ELSE o.message))]
       /\ pc' = [pc EXCEPT ![e] = IF result.success THEN "git" ELSE "write"]
  /\ agentRuns' = [agentRuns EXCEPT ![cur[e]] = @ \cup {e}]
  /\ UNCHANGED <<tasks, clock, apiKey, engines, cur, approved,
                 merged, deployed, rpc, rqueue, runs, seenReview, limit, profile, rops, repo>>

\* processTask: const gitResult = await commitAndPush(task).
CommitAndPush(e) ==
  /\ pc[e] = "git"
  /\ \E g \in GitOutcomesIn(profile) :
       LET r == commitAndPush(cur[e], g)
           path == tasks[cur[e]].projectPath
           committed == \E i \in DOMAIN r.log : r.log[i].cmd = "git commit" /\ r.log[i].ok
       IN
       /\ TracksTree(profile) => (g.status = "" <=> work.tree[path] = {})
       /\ loc' = [loc EXCEPT ![e].git = r.res]
       /\ ops' = [ops EXCEPT ![cur[e]] = @ \o r.log]
       /\ pc' = [pc EXCEPT ![e] = IF r.res.success /\ Truthy(r.res.commitHash)
                                    THEN "preview" ELSE "write"]
       /\ work' = IF committed
                    THEN [work EXCEPT !.commit[cur[e]] = work.tree[path], !.tree[path] = {}]
                    ELSE work
  /\ UNCHANGED <<tasks, clock, apiKey, engines, cur, agentRuns, approved,
                 merged, deployed, rpc, rqueue, runs, seenReview, limit, profile, rops, repo>>

\* waitForPreviewDeployment: return { success: true } with no app id or no API key.
PreviewSkip(e) ==
  /\ pc[e] = "preview"
  /\ PreviewSkipped(tasks[cur[e]].projectPath, apiKey)
  /\ loc' = [loc EXCEPT ![e].preview = PreviewResult(UNDEF, UNDEF)]
  /\ pc' = [pc EXCEPT ![e] = "write"]
  /\ UNCHANGED <<tasks, clock, apiKey, engines, cur, ops, agentRuns, approved,
                 merged, deployed, rpc, rqueue, runs, seenReview, limit, profile, rops, repo, work>>

PreviewPollNoSleep(e) ==
  /\ pc[e] = "preview"
  /\ ~PreviewSkipped(tasks[cur[e]].projectPath, apiKey)
  /\ loc[e].waited < MaxWaitSeconds
  /\ \E o \in PreviewOutcomesIn(profile, loc[e].waited) :
       /\ ops' = [ops EXCEPT ![cur[e]] =
                    Append(@, PreviewPollCmd(loc[e].git.branchName, o))]
       /\ IF o.kind = "found"
            THEN /\ loc' = [loc EXCEPT ![e].preview =
                                         PreviewFound(loc[e].git.branchName, o)]
                 /\ pc' = [pc EXCEPT ![e] = "write"]
            ELSE /\ loc' = loc
                 /\ pc' = pc
  /\ UNCHANGED <<tasks, clock, apiKey, engines, cur, agentRuns, approved,
                 merged, deployed, rpc, rqueue, runs, seenReview, limit, profile, rops, repo, work>>

\* waitForPreviewDeployment: one turn of the while loop. A preview for the branch
\* returns; anything else sleeps for the poll interval and tests the clock again.
PreviewPoll(e) ==
  /\ pc[e] = "preview"
  /\ ~PreviewSkipped(tasks[cur[e]].projectPath, apiKey)
  /\ loc[e].waited < MaxWaitSeconds
  /\ \E o \in PreviewOutcomesIn(profile, loc[e].waited) :
       /\ ops' = [ops EXCEPT ![cur[e]] =
                    Append(@, PreviewPollCmd(loc[e].git.branchName, o))]
       /\ IF o.kind = "found"
            THEN /\ loc' = [loc EXCEPT ![e].preview =
                                         PreviewFound(loc[e].git.branchName, o)]
                 /\ pc' = [pc EXCEPT ![e] = "write"]
            ELSE /\ loc' = [loc EXCEPT ![e].waited = @ + PollIntervalSeconds]
                 /\ pc' = pc
  /\ UNCHANGED <<tasks, clock, apiKey, engines, cur, agentRuns, approved,
                 merged, deployed, rpc, rqueue, runs, seenReview, limit, profile, rops, repo, work>>

\* waitForPreviewDeployment: the loop condition fails; return { success: true }.
PreviewTimeout(e) ==
  /\ pc[e] = "preview"
  /\ ~PreviewSkipped(tasks[cur[e]].projectPath, apiKey)
  /\ loc[e].waited >= MaxWaitSeconds
  /\ loc' = [loc EXCEPT ![e].preview = PreviewResult(UNDEF, UNDEF)]
  /\ pc' = [pc EXCEPT ![e] = "write"]
  /\ UNCHANGED <<tasks, clock, apiKey, engines, cur, ops, agentRuns, approved,
                 merged, deployed, rpc, rqueue, runs, seenReview, limit, profile, rops, repo, work>>

\* processTask: const previewResult = await waitForPreviewDeployment(...).
WaitPreview(e) ==
  \/ PreviewSkip(e)
  \/ PreviewPoll(e)
  \/ PreviewTimeout(e)

\* processTask: the last updateTaskStatus call; main then sleeps and polls again.
FinalWrite(e) ==
  /\ pc[e] = "write"
  /\ tasks' = [tasks EXCEPT ![cur[e]] =
                  updateTaskStatus(@, FinalStatus(loc[e]), FinalExtra(loc[e]))]
  /\ pc' = [pc EXCEPT ![e] = "poll"]
  /\ cur' = [cur EXCEPT ![e] = 0]
  /\ loc' = [loc EXCEPT ![e] = NoLoc]
  /\ UNCHANGED <<clock, apiKey, engines, ops, agentRuns, approved,
                 merged, deployed, rpc, rqueue, runs, seenReview, limit, profile, rops, repo, work>>

(* ------------------------------------------------------ thrown errors *)
\* The message of an error that a store call or a step of processTask throws.
ErrorMessages == {"Connection terminated unexpectedly"}

\* processTask: the claim write throws. It stands before the try block, so the
\* error leaves processTask and is logged by the catch of main's loop.
ClaimThrows(e) ==
  /\ pc[e] = "claim"
  /\ pc' = [pc EXCEPT ![e] = "poll"]
  /\ cur' = [cur EXCEPT ![e] = 0]
  /\ UNCHANGED <<tasks, clock, apiKey, engines, loc, ops, agentRuns, approved,
                 merged, deployed, rpc, rqueue, runs, seenReview, limit, profile, rops, repo, work>>

\* processTask: an await inside the try block throws (the last write included),
\* and control enters the catch block with the error's message.
ProcessThrows(e) ==
  /\ pc[e] \in {"agent", "git", "preview", "write"}
  /\ \E m \in ErrorMessages : loc' = [loc EXCEPT ![e].thrown = m]
  /\ pc' = [pc EXCEPT ![e] = "catch"]
  /\ UNCHANGED <<tasks, clock, apiKey, engines, cur, ops, agentRuns, approved,
                 merged, deployed, rpc, rqueue, runs, seenReview, limit, profile, rops, repo, work>>

\* processTask, catch block: updateTaskStatus(task.id, 'failed', { error: errorMsg }).
CatchWrite(e) ==
  /\ pc[e] = "catch"
  /\ tasks' = [tasks EXCEPT ![cur[e]] =
                  updateTaskStatus(@, "failed", [error |-> loc[e].thrown])]
  /\ pc' = [pc EXCEPT ![e] = "poll"]
  /\ cur' = [cur EXCEPT ![e] = 0]
  /\ loc' = [loc EXCEPT ![e] = NoLoc]
  /\ UNCHANGED <<clock, apiKey, engines, ops, agentRuns, approved,
                 merged, deployed, rpc, rqueue, runs, seenReview, limit, profile, rops, repo, work>>

\* processTask, catch block: the write of the catch block throws as well. The
\* error leaves processTask and is logged by the catch of main's loop.
CatchWriteThrows(e) ==
  /\ pc[e] = "catch"
  /\ pc' = [pc EXCEPT ![e] = "poll"]
  /\ cur' = [cur EXCEPT ![e] = 0]
  /\ loc' = [loc EXCEPT ![e] = NoLoc]
  /\ UNCHANGED <<tasks, clock, apiKey, engines, ops, agentRuns, approved,
                 merged, deployed, rpc, rqueue, runs, seenReview, limit, profile, rops, repo, work>>

\* The runner process is killed while it holds a task, and main starts again.
Crash(e) ==
  /\ pc[e] \in {"agent", "git", "preview", "write"}
  /\ pc' = [pc EXCEPT ![e] = "poll"]
  /\ cur' = [cur EXCEPT ![e] = 0]
  /\ loc' = [loc EXCEPT ![e] = NoLoc]
  /\ UNCHANGED <<tasks, clock, apiKey, engines, ops, agentRuns, approved,
                 merged, deployed, rpc, rqueue, runs, seenReview, limit, profile, rops, repo, work>>

(* ------------------------------------------------------ tasks router *)
ProjectPathsIn(p) == IF p \in {"full", "review"} THEN ProjectPaths ELSE {MappedPath}

\* tasksRouter.create: insert a row with the column defaults.
Create ==
  /\ clock < limit
  /\ \E path \in ProjectPathsIn(profile) :
       tasks' = [tasks EXCEPT ![clock + 1] = NewRow(path, clock + 1)]
  /\ clock' = clock + 1
  /\ UNCHANGED <<apiKey, engines, pc, cur, loc, ops, agentRuns, approved,
                 merged, deployed, rpc, rqueue, runs, seenReview, limit, profile, rops, repo, work>>

\* tasks.list / tasks.getReviewTasks: the page fetches the rows; what it shows
\* stays on screen until the next fetch.
Fetch ==
  /\ seenReview' = seenReview \cup {t \in TaskIds : tasks[t].status = "review"}
  /\ seenReview' # seenReview
  /\ UNCHANGED <<tasks, clock, apiKey, engines, pc, cur, loc, ops, agentRuns, approved,
                 merged, deployed, rpc, rqueue, runs, limit, profile, rops, repo, work>>

\* tasksRouter.cancel: set status cancelled where id = input.id.
\* The page renders the button for a task whose fetched status is pending.
Cancel(t) ==
  /\ Exists(t)
  /\ tasks' = [tasks EXCEPT ![t].status = "cancelled"]
  /\ UNCHANGED <<clock, apiKey, engines, pc, cur, loc, ops, agentRuns, approved,
                 merged, deployed, rpc, rqueue, runs, seenReview, limit, profile, rops, repo, work>>

ApproveNoStamp(t) ==
  /\ t \in seenReview
  /\ tasks' = [tasks EXCEPT ![t].status = "completed"]
  /\ approved' = approved \cup {t}
  /\ UNCHANGED <<clock, apiKey, engines, pc, cur, loc, ops, agentRuns,
                 merged, deployed, rpc, rqueue, runs, seenReview, limit, profile, rops, repo, work>>

\* tasksRouter.approve: set status completed and completedAt where id = input.id.
\* ReviewWorkflow renders its buttons for a task whose fetched status is review.
Approve(t) ==
  /\ t \in seenReview
  /\ tasks' = [tasks EXCEPT ![t].status = "completed", ![t].completedAt = TRUE]
  /\ approved' = approved \cup {t}
  /\ UNCHANGED <<clock, apiKey, engines, pc, cur, loc, ops, agentRuns,
                 merged, deployed, rpc, rqueue, runs, seenReview, limit, profile, rops, repo, work>>

RejectReasons == {"", "not what was asked"}

RejectReasonsIn(p) == IF p = "full" THEN RejectReasons ELSE {""}

RejectNoDefault(t) ==
  /\ t \in seenReview
  /\ \E reason \in RejectReasonsIn(profile) :
       tasks' = [tasks EXCEPT ![t].status = "failed",
                              ![t].error = reason,
                              ![t].completedAt = TRUE]
  /\ UNCHANGED <<clock, apiKey, engines, pc, cur, loc, ops, agentRuns, approved,
                 merged, deployed, rpc, rqueue, runs, seenReview, limit, profile, rops, repo, work>>

\* tasksRouter.reject: set status failed, error and completedAt where id = input.id.
Reject(t) ==
  /\ t \in seenReview
  /\ \E reason \in RejectReasonsIn(profile) :
       tasks' = [tasks EXCEPT ![t].status = "failed",
                              ![t].error = OrElse(reason, "Task rejected during review"),
                              ![t].completedAt = TRUE]
  /\ UNCHANGED <<clock, apiKey, engines, pc, cur, loc, ops, agentRuns, approved,
                 merged, deployed, rpc, rqueue, runs, seenReview, limit, profile, rops, repo, work>>

(* ------------------------------------------------ review workflow handler *)
\* The columns of a row that the handler reads after its findMany.
Snapshot(t) ==
  [id |-> t, branchName |-> tasks[t].branchName,
   previewDeploymentId |-> tasks[t].previewDeploymentId]

ApprovedTasksWithReview ==
  {Snapshot(t) : t \in {u \in TaskIds : /\ tasks[u].status \in {"completed", "review"}
                                        /\ Truthy(tasks[u].branchName)
                                        /\ Truthy(tasks[u].commitHash)}}

\* main: the completed rows that pass `task.branchName && task.commitHash`.
ApprovedTasks ==
  {Snapshot(t) : t \in {u \in TaskIds : /\ tasks[u].status = "completed"
                                        /\ Truthy(tasks[u].branchName)
                                        /\ Truthy(tasks[u].commitHash)}}

\* main: the failed rows that pass `task.previewDeploymentId || task.branchName`.
RejectedTasks ==
  {Snapshot(t) : t \in {u \in TaskIds : /\ tasks[u].status = "failed"
                                        /\ (Truthy(tasks[u].previewDeploymentId)
                                             \/ Truthy(tasks[u].branchName))}}

\* What the commands of one processApprovedTask call can do: the first step that
\* fails, or none.
\* "delete" stands for a run in which only the two branch deletions fail.
ApproveOutcomes == {"checkout", "pull", "merge", "push", "delete", "deploy", "ok"}

\* The failing steps explored under a profile: each of them, or the merge and the
\* deployment.
ApproveOutcomesIn(p) ==
  IF p \in {"full", "handler"} THEN ApproveOutcomes
  ELSE IF p = "rerun" THEN {"merge", "delete", "ok"}
  ELSE {"merge", "deploy", "ok"}

DeployRequestedNoKeyCheck(projectPath, key) == HasAppId(projectPath)

\* deployToProduction: whether it posts application.deploy.
DeployRequested(projectPath, key) == HasAppId(projectPath) /\ key

\* mergeToMain: the commands it runs when the first step to fail is o.
mergeToMain(o) ==
  LET checkout == <<Cmd("git checkout main", o # "checkout", "", "")>>
      pull == <<Cmd("git pull origin main", o # "pull", "", "")>>
      merge == <<Cmd("git merge", o # "merge", "", "")>>
      push == <<Cmd("git push origin main", o # "push", "", "")>>
      delete == <<Cmd("git branch -d", o # "delete", "", ""),
                  Cmd("git push origin --delete", o # "delete", "", "")>>
  IN IF o = "checkout" THEN checkout
     ELSE IF o = "pull" THEN checkout \o pull
     ELSE IF o = "merge" THEN checkout \o pull \o merge
     ELSE IF o = "push" THEN checkout \o pull \o merge \o push
     ELSE checkout \o pull \o merge \o push \o delete

\* deployToProduction: the request it makes, if any.
deployToProduction(projectPath, key, o) ==
  IF DeployRequested(projectPath, key)
    THEN <<Cmd("application.deploy", o # "deploy", "", "")>>
    ELSE <<>>

cleanupPreviewDeploymentSkip(key) == <<>>

\* cleanupPreviewDeployment: the request it makes, if any.
cleanupPreviewDeployment(key) ==
  IF key THEN <<Cmd("application.deletePreview", TRUE, "", "")>> ELSE <<>>

processApprovedTaskNoGate(r, projectPath, key, o) ==
  mergeToMain(o) \o deployToProduction(projectPath, key, o)
  \o (IF Truthy(r.previewDeploymentId) THEN cleanupPreviewDeployment(key) ELSE <<>>)
  \o <<Cmd("successfully deployed", TRUE, "", "")>>

\* processApprovedTask: what it runs for a row when the first step to fail is o; the
\* last entry of a run that gets to its end is the "successfully deployed" message.
processApprovedTask(r, projectPath, key, o) ==
  IF o \in {"checkout", "pull", "merge", "push"} THEN mergeToMain(o)
  ELSE IF o = "deploy" THEN mergeToMain(o) \o deployToProduction(projectPath, key, o)
  ELSE mergeToMain(o) \o deployToProduction(projectPath, key, o)
       \o (IF Truthy(r.previewDeploymentId) THEN cleanupPreviewDeployment(key) ELSE <<>>)
       \o <<Cmd("successfully deployed", TRUE, "", "")>>

processRejectedTaskBranchAlways(r, key) ==
  (IF Truthy(r.previewDeploymentId) THEN cleanupPreviewDeployment(key) ELSE <<>>)
  \o <<Cmd("git push origin --delete", TRUE, "", "")>>
  \o <<Cmd("cleanup completed", TRUE, "", "")>>

\* processRejectedTask: what it runs for a row.
processRejectedTask(r, key) ==
  (IF Truthy(r.previewDeploymentId) THEN cleanupPreviewDeployment(key) ELSE <<>>)
  \o (IF Truthy(r.branchName)
        THEN <<Cmd("git push origin --delete", TRUE, "", "")>> ELSE <<>>)
  \o <<Cmd("cleanup completed", TRUE, "", "")>>

\* What earlier handler runs have left of a task's branch and preview deployment.
Facts == {"merged", "local branch gone", "upstream branch gone", "preview gone"}

\* The log of a call as git and Dokploy answer it: a merge of a branch that main
\* already holds prints "Already up to date." and a deletion of what is gone fails.
Observed(log, facts) ==
  [i \in DOMAIN log |->
     IF log[i].cmd = "git merge" /\ log[i].ok /\ "merged" \in facts
       THEN [log[i] EXCEPT !.out = "Already up to date."]
     ELSE IF \/ log[i].cmd = "git branch -d" /\ "local branch gone" \in facts
             \/ log[i].cmd = "git push origin --delete" /\ "upstream branch gone" \in facts
             \/ log[i].cmd = "application.deletePreview" /\ "preview gone" \in facts
       THEN [log[i] EXCEPT !.ok = FALSE]
     ELSE log[i]]

\* What a log leaves behind: the merge it made and the deletions that succeeded.
Left(log) ==
  {f \in Facts :
     \E i \in DOMAIN log :
       /\ log[i].ok
       /\ \/ f = "merged" /\ log[i].cmd = "git merge"
          \/ f = "local branch gone" /\ log[i].cmd = "git branch -d"
          \/ f = "upstream branch gone" /\ log[i].cmd = "git push origin --delete"
          \/ f = "preview gone" /\ log[i].cmd = "application.deletePreview"}

\* The handler runs explored under a profile.
RunLimit(p) == IF p = "rerun" THEN MaxReruns ELSE MaxRuns

\* main: findMany where status = completed.
ResolverStart ==
  /\ rpc = "idle"
  /\ runs < RunLimit(profile)
  /\ rqueue' = ApprovedTasks
  /\ rpc' = "approved"
  /\ runs' = runs + 1
  /\ UNCHANGED <<tasks, clock, apiKey, engines, pc, cur, loc, ops, agentRuns, approved,
                 merged, deployed, seenReview, limit, profile, rops, repo, work>>

\* processApprovedTask: mergeToMain, deployToProduction, cleanupPreviewDeployment.
ProcessApproved ==
  /\ rpc = "approved"
  /\ \E r \in rqueue, o \in ApproveOutcomesIn(profile) :
       LET didMerge == o \in {"push", "delete", "deploy", "ok"}
           didDeploy == /\ o \in {"delete", "ok"}
                        /\ DeployRequested(tasks[r.id].projectPath, apiKey)
           log == Observed(processApprovedTask(r, tasks[r.id].projectPath, apiKey, o),
                           repo[r.id])
       IN /\ (o = "deploy" => DeployRequested(tasks[r.id].projectPath, apiKey))
          /\ ("local branch gone" \in repo[r.id] => o \in {"checkout", "pull", "merge"})
          /\ merged' = [merged EXCEPT ![r.id] = IF didMerge THEN @ + 1 ELSE @]
          /\ deployed' = [deployed EXCEPT ![r.id] = IF didDeploy THEN @ + 1 ELSE @]
          /\ rops' = [rops EXCEPT ![r.id] = log]
          /\ repo' = [repo EXCEPT ![r.id] = @ \cup Left(log)]
          /\ rqueue' = rqueue \ {r}
  /\ UNCHANGED <<tasks, clock, apiKey, engines, pc, cur, loc, ops, agentRuns, approved,
                 rpc, runs, seenReview, limit, profile, work>>

\* main: findMany where status = failed, after the approved rows are done.
ResolverReadRejected ==
  /\ rpc = "approved"
  /\ rqueue = {}
  /\ rqueue' = RejectedTasks
  /\ rpc' = "rejected"
  /\ UNCHANGED <<tasks, clock, apiKey, engines, pc, cur, loc, ops, agentRuns, approved,
                 merged, deployed, runs, seenReview, limit, profile, rops, repo, work>>

ProcessRejectedThrows ==
  /\ rpc = "rejected"
  /\ \E r \in rqueue :
       LET log == Observed(processRejectedTask(r, apiKey), repo[r.id])
       IN IF \A i \in DOMAIN log : log[i].ok
            THEN /\ rops' = [rops EXCEPT ![r.id] = log]
                 /\ repo' = [repo EXCEPT ![r.id] = @ \cup Left(log)]
                 /\ rqueue' = rqueue \ {r}
                 /\ rpc' = rpc
            ELSE /\ rqueue' = {}
                 /\ rpc' = "idle"
                 /\ UNCHANGED <<rops, repo, work>>
  /\ UNCHANGED <<tasks, clock, apiKey, engines, pc, cur, loc, ops, agentRuns, approved,
                 merged, deployed, runs, seenReview, limit, profile, work>>

ProcessRejectedMarks ==
  /\ rpc = "rejected"
  /\ \E r \in rqueue :
       /\ LET log == Observed(processRejectedTask(r, apiKey), repo[r.id])
          IN /\ rops' = [rops EXCEPT ![r.id] = log]
             /\ repo' = [repo EXCEPT ![r.id] = @ \cup Left(log)]
       /\ rqueue' = rqueue \ {r}
       /\ tasks' = [tasks EXCEPT ![r.id].status = "cancelled"]
  /\ UNCHANGED <<clock, apiKey, engines, pc, cur, loc, ops, agentRuns, approved,
                 merged, deployed, rpc, runs, seenReview, limit, profile, work>>

\* processRejectedTask: cleanupPreviewDeployment and push origin --delete.
ProcessRejected ==
  /\ rpc = "rejected"
  /\ \E r \in rqueue :
       /\ LET log == Observed(processRejectedTask(r, apiKey), repo[r.id])
          IN /\ rops' = [rops EXCEPT ![r.id] = log]
             /\ repo' = [repo EXCEPT ![r.id] = @ \cup Left(log)]
       /\ rqueue' = rqueue \ {r}
  /\ UNCHANGED <<tasks, clock, apiKey, engines, pc, cur, loc, ops, agentRuns, approved,
                 merged, deployed, rpc, runs, seenReview, limit, profile, work>>

\* main: process.exit(0) once the rejected rows are done.
ResolverExit ==
  /\ rpc = "rejected"
  /\ rqueue = {}
  /\ rpc' = "idle"
  /\ UNCHANGED <<tasks, clock, apiKey, engines, pc, cur, loc, ops, agentRuns, approved,
                 merged, deployed, rqueue, runs, seenReview, limit, profile, rops, repo, work>>

(* ------------------------------------------------------ specifications *)
InitWith(es, p, n) ==
  /\ tasks = [t \in TaskIds |-> AbsentRow]
  /\ clock = 0
  /\ apiKey \in BOOLEAN
  /\ engines = es
  /\ pc = [e \in EngineIds |-> "poll"]
  /\ cur = [e \in EngineIds |-> 0]
  /\ loc = [e \in EngineIds |-> NoLoc]
  /\ ops = [t \in TaskIds |-> <<>>]
  /\ agentRuns = [t \in TaskIds |-> {}]
  /\ approved = {}
  /\ merged = [t \in TaskIds |-> 0]
  /\ deployed = [t \in TaskIds |-> 0]
  /\ rpc = "idle"
  /\ rqueue = {}
  /\ runs = 0
  /\ seenReview = {}
  /\ profile = p
  /\ limit = n
  /\ rops = [t \in TaskIds |-> <<>>]
  /\ repo = [t \in TaskIds |-> {}]
  /\ work = [tree |-> [path \in ProjectPaths |-> {}], commit |-> [t \in TaskIds |-> {}]]

\* One agent runner.
Init == InitWith({1}, "coarse", MaxTasks)
\* Two agent runners polling the same table.
InitTwo == InitWith({1, 2}, "coarse", MaxTasksDetail)

Engine(e) ==
  \/ Poll(e)
  \/ Claim(e)
  \/ RunAgent(e)
  \/ CommitAndPush(e)
  \/ WaitPreview(e)
  \/ FinalWrite(e)

\* The tasks an agent runner holds between getNextTask and its last write.
InFlight == {cur[e] : e \in engines} \ {0}

Mutation(t) ==
  \/ Cancel(t)
  \/ Approve(t)
  \/ Reject(t)

Resolver ==
  \/ ResolverStart
  \/ ProcessApproved
  \/ ResolverReadRejected
  \/ ProcessRejected
  \/ ResolverExit

\* The task store and its writers: the tasks router and the agent runners.
Next ==
  \/ Create
  \/ Fetch
  \/ \E e \in engines : Engine(e)
  \/ \E t \in TaskIds : Mutation(t)

\* The same, with no mutation of a task that an agent runner holds.
NextQuiet ==
  \/ Create
  \/ Fetch
  \/ \E e \in engines : Engine(e)
  \/ \E t \in TaskIds \ InFlight : Mutation(t)

\* One pipeline after the other, with every behaviour of the agent, git, gh and
\* Dokploy, and the cancel button.
NextPipeline ==
  \/ Create
  \/ \E e \in engines : Engine(e)
  \/ \E t \in TaskIds : Cancel(t)

\* The store's writers and the review workflow handler.
NextReview ==
  \/ Next
  \/ Resolver

Spec == Init /\ [][Next]_vars
SpecTwo == InitTwo /\ [][NextPipeline]_vars
SpecQuiet == Init /\ [][NextQuiet]_vars
SpecReview == InitWith({1}, "review", MaxTasksDetail) /\ [][NextReview]_vars
SpecFull == InitWith({1}, "full", MaxTasksDetail) /\ [][NextPipeline]_vars
SpecPreview == InitWith({1}, "preview", MaxTasksDetail) /\ [][NextPipeline]_vars

Thrown(e) ==
  \/ ClaimThrows(e)
  \/ ProcessThrows(e)
  \/ CatchWrite(e)
  \/ CatchWriteThrows(e)

\* The pipeline with store calls and steps that can throw, and the reject mutation.
NextThrown ==
  \/ Create
  \/ \E e \in engines : Engine(e)
  \/ \E e \in engines : Thrown(e)
  \/ Fetch
  \/ \E t \in TaskIds : Reject(t)

\* The runner, a kill of its process, the router mutations and the handler.
NextCrash ==
  \/ NextReview
  \/ \E e \in engines : Crash(e)

SpecThrown == InitWith({1}, "full", MaxTasksDetail) /\ [][NextThrown]_vars
SpecCrash == InitWith({1}, "coarse", MaxTasksDetail) /\ [][NextCrash]_vars

\* One agent runner whose loop keeps running: main's while (true) takes its next
\* step whenever it has one.
SpecLive ==
  /\ InitWith({1}, "coarse", MaxTasks)
  /\ [][NextPipeline]_vars
  /\ WF_vars(\E e \in engines : Engine(e))

\* The same with store calls and steps that can throw; a claim write does not
\* fail every time the loop comes to it.
NextPipelineThrown ==
  \/ NextPipeline
  \/ \E e \in engines : Thrown(e)

SpecLiveThrown ==
  /\ InitWith({1}, "coarse", MaxTasksDetail)
  /\ [][NextPipelineThrown]_vars
  /\ WF_vars(\E e \in engines : Engine(e) \/ Thrown(e))
  /\ SF_vars(\E e \in engines : Claim(e))

\* The runner, the page's review decisions and the handler.
NextDecide ==
  \/ Create
  \/ \E e \in engines : Engine(e)
  \/ Fetch
  \/ \E t \in TaskIds : Approve(t)
  \/ \E t \in TaskIds : Reject(t)
  \/ Resolver

SpecHandler == InitWith({1}, "handler", MaxTasksDetail) /\ [][NextDecide]_vars
SpecRerun == InitWith({1}, "rerun", MaxTasksDetail) /\ [][NextDecide]_vars

\* Two tasks of one project path, the page and the handler.
SpecShared == InitWith({1}, "shared", MaxTasks) /\ [][NextDecide]_vars

SpecBase == InitWith({1}, "base", MaxTasksDetail) /\ [][NextDecide]_vars
SpecTree == InitWith({1}, "tree", MaxTasks) /\ [][NextPipeline]_vars

(* ------------------------------------------------------------- claims *)
EngineCmds(t) == {ops[t][i].cmd : i \in DOMAIN ops[t]}

\* C1: review gate. A task's branch is merged into main and a production
\* deployment is triggered for it only after the approve mutation was applied to
\* it, and the agent runner itself runs no merge and posts no application.deploy.
C1_ReviewGate ==
  \A t \in TaskIds :
    /\ (merged[t] > 0 \/ deployed[t] > 0) => t \in approved
    /\ EngineCmds(t) \cap {"git merge", "git push main", "application.deploy"} = {}

C1_Witness ==
  \E t \in TaskIds : merged[t] > 0 /\ deployed[t] > 0 /\ t \in approved

\* C2: with two agent runners on one table, no task has its agent run invoked by
\* more than one of them.
C2_AtMostOneWorker ==
  \A t \in TaskIds : Cardinality(agentRuns[t]) <= 1

\* C3: cancelled is terminal and reached only from pending: no step of the agent
\* runner moves a cancelled task to another status, and a task becomes cancelled
\* only from pending.
C3_CancelledTerminal ==
  [][\A t \in TaskIds :
       /\ (tasks[t].status = "cancelled" /\ pc' # pc) => tasks'[t].status = "cancelled"
       /\ (tasks'[t].status = "cancelled" /\ tasks[t].status # "cancelled")
            => tasks[t].status = "pending"]_vars

\* C4: with one agent runner and no mutation of a task it holds, every status
\* change the runner writes is pending -> running, running -> review,
\* running -> completed or running -> failed.
EngineEdges ==
  {<<"pending", "running">>, <<"running", "review">>, <<"running", "completed">>,
   <<"running", "failed">>}

C4_EngineEdges ==
  [][\A t \in TaskIds :
       (pc' # pc /\ tasks'[t].status # tasks[t].status)
         => <<tasks[t].status, tasks'[t].status>> \in EngineEdges]_vars

C4_Witness ==
  \E t \in TaskIds : tasks[t].status = "review" /\ pc[1] = "poll"

\* C5: strict FIFO. The task getNextTask returns has the earliest createdAt among
\* the pending tasks at the read, and when the runner writes running for it no
\* older task is pending.
C5_Fifo ==
  [][\A e \in EngineIds :
       /\ (pc[e] = "poll" /\ pc'[e] = "claim")
            => \A u \in Pending : tasks[cur'[e]].createdAt <= tasks[u].createdAt
       /\ (pc[e] = "claim" /\ pc'[e] = "agent")
            => \A u \in Pending : tasks[cur[e]].createdAt <= tasks[u].createdAt]_vars

C5_Witness ==
  /\ pc[1] = "agent"
  /\ tasks[cur[1]].status = "running"
  /\ \E u \in Pending : tasks[cur[1]].createdAt < tasks[u].createdAt

\* C6: with one agent runner at most one task is running at any time, and the
\* runner reads the next pending task only after the task it claimed was written
\* as review, completed or failed.
Running == {t \in TaskIds : tasks[t].status = "running"}

Succeeded(t, cmd) == \E i \in DOMAIN ops[t] : ops[t][i].cmd = cmd /\ ops[t][i].ok
Failed(t, cmd) == \E i \in DOMAIN ops[t] : ops[t][i].cmd = cmd /\ ~ops[t][i].ok
Printed(t, cmd, out) == \E i \in DOMAIN ops[t] : ops[t][i].cmd = cmd /\ ops[t][i].out = out
HashRead(t) == {ops[t][i].out : i \in {j \in DOMAIN ops[t] : ops[t][j].cmd = "git rev-parse HEAD"}}
AgentEntry(t) == {ops[t][i] : i \in {j \in DOMAIN ops[t] : ops[t][j].cmd = "opencode"}}
\* The step in which an agent runner makes its last write for the task it holds.
LastWrite(e) == pc[e] = "write" /\ pc'[e] = "poll"

\* C7: the runner writes review for the task it holds if and only if the agent
\* run succeeded, commit and push succeeded and a commit hash was read, whatever
\* became of the PR and of the preview.
C7_ReviewIff ==
  [][\A e \in EngineIds :
       LastWrite(e) =>
         LET t == cur[e] IN
         (tasks'[t].status = "review")
           <=> /\ Succeeded(t, "opencode")
               /\ Succeeded(t, "git commit")
               /\ Succeeded(t, "git push")
               /\ HashRead(t) # {} /\ "" \notin HashRead(t)]_vars

C7_Witness ==
  \E t \in TaskIds :
    /\ tasks[t].status = "review"
    /\ Failed(t, "gh pr create")
    /\ tasks[t].prUrl = NULL
    /\ tasks[t].previewUrl = NULL

\* C8: no-op task. If the agent succeeds and git status prints nothing, the task
\* is written as completed with output set and branchName, commitHash, prUrl,
\* prNumber, previewUrl and previewDeploymentId still null, and no branch, commit,
\* push, PR or preview poll was made for it.
C8_NoOp ==
  [][\A e \in EngineIds :
       (LastWrite(e) /\ Succeeded(cur[e], "opencode") /\ Printed(cur[e], "git status", ""))
         => LET t == cur[e]
                row == tasks'[t]
            IN /\ row.status = "completed"
               /\ row.output \in Stdouts
               /\ row.branchName = NULL /\ row.commitHash = NULL
               /\ row.prUrl = NULL /\ row.prNumber = NULLN
               /\ row.previewUrl = NULL /\ row.previewDeploymentId = NULL
               /\ EngineCmds(t) \cap {"git checkout -b", "git add", "git commit",
                                      "git push", "gh pr create",
                                      "previewDeployment.all"} = {}]_vars

C8_Witness ==
  \E t \in TaskIds :
    /\ tasks[t].status = "completed"
    /\ Printed(t, "git status", "")
    /\ tasks[t].output = ""

\* C9 as stated: on an agent failure the task is written as failed with error
\* equal to the captured stderr (or the launch error text) and output equal to the
\* captured stdout, and no git, gh or Dokploy command is run for it.
C9_Original ==
  [][\A e \in EngineIds :
       (LastWrite(e) /\ Failed(cur[e], "opencode"))
         => LET t == cur[e]
                row == tasks'[t]
            IN \A a \in AgentEntry(t) :
                 /\ row.status = "failed"
                 /\ row.error = a.err
                 /\ row.output = a.out
                 /\ EngineCmds(t) = {"opencode"}]_vars

\* C9 as amended: the same, with error equal to the captured stderr when that is
\* not empty, to the text "Exit code: <code>" when it is empty, and to the launch
\* error text on a launch error.
C9_AgentFailure ==
  [][\A e \in EngineIds :
       (LastWrite(e) /\ Failed(cur[e], "opencode"))
         => LET t == cur[e]
                row == tasks'[t]
            IN \A a \in AgentEntry(t) :
                 /\ row.status = "failed"
                 /\ row.error = (IF a.err = "" THEN "Exit code: 1" ELSE a.err)
                 /\ row.output = a.out
                 /\ EngineCmds(t) = {"opencode"}]_vars

C9_Witness ==
  \E t \in TaskIds :
    /\ tasks[t].status = "failed"
    /\ tasks[t].error = "Exit code: 1"
    /\ \E a \in AgentEntry(t) : ~a.ok /\ a.err = ""

\* C10: git step failure. If the agent succeeds and checkout -b, add, commit or
\* push fails, the task is written as failed with that step's text in error, and
\* after a failed push the row carries the feature branch name and the commit
\* hash that was read.
StepText(t) ==
  IF Failed(t, "git checkout -b") THEN "Failed to create branch: fatal: unable to proceed"
  ELSE IF Failed(t, "git add") THEN "Failed to stage changes: fatal: unable to proceed"
  ELSE IF Failed(t, "git commit") THEN "Failed to commit: fatal: unable to proceed"
  ELSE "Failed to push: fatal: unable to proceed"

C10_GitFailure ==
  [][\A e \in EngineIds :
       (/\ LastWrite(e)
        /\ Succeeded(cur[e], "opencode")
        /\ \E c \in {"git checkout -b", "git add", "git commit", "git push"} :
             Failed(cur[e], c))
         => LET t == cur[e]
                row == tasks'[t]
            IN /\ row.status = "failed"
               /\ row.error = StepText(t)
               /\ \A i \in DOMAIN ops[t] :
                    ~ops[t][i].ok => ops[t][i].out = "fatal: unable to proceed"
               /\ Failed(t, "git push")
                    => /\ row.branchName = "agent/" \o ToString(t)
                       /\ row.commitHash # NULL
                       /\ row.commitHash \in HashRead(t)]_vars

C10_Witness ==
  \E t \in TaskIds :
    /\ tasks[t].status = "failed"
    /\ Failed(t, "git push")
    /\ tasks[t].error = "Failed to push: fatal: unable to proceed"
    /\ tasks[t].branchName = "agent/1"
    /\ tasks[t].commitHash = "abc1234"

\* C11: return to base. Once commitAndPush has created the feature branch, it runs
\* a checkout of the base branch after its last command on the feature branch (add,
\* commit, rev-parse HEAD, push, gh pr create), so the runner's last write for the
\* task comes after a checkout of the base branch.
FeatureBranchCmds ==
  {"git checkout -b", "git add", "git commit", "git rev-parse HEAD", "git push",
   "gh pr create"}

ReturnedToBase(t) ==
  \E i \in DOMAIN ops[t] :
    /\ ops[t][i].cmd = "git checkout base"
    /\ \A j \in DOMAIN ops[t] : ops[t][j].cmd \in FeatureBranchCmds => j < i

C11_ReturnToBase ==
  [][\A e \in EngineIds :
       (LastWrite(e) /\ Succeeded(cur[e], "git checkout -b"))
         => ReturnedToBase(cur[e])]_vars

C11_Witness ==
  \E t \in TaskIds :
    /\ tasks[t].status = "failed"
    /\ Failed(t, "git push")
    /\ ReturnedToBase(t)

C13_PrFailureRecorded ==
  [][\A e \in EngineIds :
       (/\ LastWrite(e)
        /\ Succeeded(cur[e], "git push")
        /\ Failed(cur[e], "gh pr create")
        /\ tasks'[cur[e]].status = "review")
         => tasks'[cur[e]].error # NULL]_vars

\* C14: the preview wait terminates. With an app id and an API key the loop makes
\* at most MaxWaitSeconds / PollIntervalSeconds requests: every turn that does not
\* return adds the poll interval to the time waited, whether the response listed no
\* preview for the branch, was not OK, or the fetch threw; the wait can always take
\* its next step; and a wait that found no preview returns success with no preview
\* data, after which the task is written as review with previewUrl and
\* previewDeploymentId null.
PreviewPolls(t) == {i \in DOMAIN ops[t] : ops[t][i].cmd = "previewDeployment.all"}
PreviewSeen(t) == \E i \in PreviewPolls(t) : ops[t][i].out # ""

C14_PreviewWaitTerminates ==
  /\ [](\A e \in EngineIds :
          pc[e] = "preview"
            => /\ loc[e].waited <= 30
               /\ Cardinality(PreviewPolls(cur[e])) * 5 = loc[e].waited
               /\ ENABLED WaitPreview(e))
  /\ [](\A t \in TaskIds : Cardinality(PreviewPolls(t)) <= 6)
  /\ [][\A e \in EngineIds :
          /\ (pc[e] = "preview" /\ pc'[e] = "preview" /\ loc'[e] # loc[e])
               => loc'[e].waited = loc[e].waited + 5
          /\ (pc[e] = "preview" /\ pc'[e] # "preview")
               => /\ pc'[e] = "write"
                  /\ loc'[e].preview.success
                  /\ ~PreviewSeen(cur[e])'
                       => /\ loc'[e].preview.previewUrl = UNDEF
                          /\ loc'[e].preview.deploymentId = UNDEF
          /\ (LastWrite(e) /\ PreviewPolls(cur[e]) # {} /\ ~PreviewSeen(cur[e]))
               => /\ tasks'[cur[e]].status = "review"
                  /\ tasks'[cur[e]].previewUrl = NULL
                  /\ tasks'[cur[e]].previewDeploymentId = NULL]_vars

C14_Witness ==
  \E t \in TaskIds :
    /\ tasks[t].status = "review"
    /\ Cardinality(PreviewPolls(t)) = 6
    /\ ~PreviewSeen(t)
    /\ \E i \in PreviewPolls(t) : ~ops[t][i].ok
    /\ tasks[t].previewUrl = NULL /\ tasks[t].previewDeploymentId = NULL

\* C15: configuration gap. For a project path with no application id, or with no
\* API key, the preview wait makes no request and returns success, and the task is
\* written as review with no error; deployToProduction makes no request and returns
\* success, and processApprovedTask goes on to its end as after a deployment.
RCmds(t) == {rops[t][i].cmd : i \in DOMAIN rops[t]}

C15_ConfigurationGap ==
  [][/\ \A e \in EngineIds :
          /\ (pc[e] = "preview" /\ pc'[e] # pc[e]
                /\ PreviewSkipped(tasks[cur[e]].projectPath, apiKey))
               => /\ ops' = ops
                  /\ pc'[e] = "write"
                  /\ loc'[e].preview.success
          /\ (LastWrite(e) /\ Succeeded(cur[e], "git push") /\ "" \notin HashRead(cur[e])
                /\ PreviewSkipped(tasks[cur[e]].projectPath, apiKey))
               => /\ "previewDeployment.all" \notin EngineCmds(cur[e])
                  /\ tasks'[cur[e]].status = "review"
                  /\ tasks'[cur[e]].error = NULL
                  /\ tasks'[cur[e]].previewUrl = NULL
                  /\ tasks'[cur[e]].previewDeploymentId = NULL
     /\ \A r \in rqueue \ rqueue' :
          (rpc = "approved" /\ (~HasAppId(tasks[r.id].projectPath) \/ ~apiKey))
            => LET new == rops'[r.id]
                   cmds == {new[i].cmd : i \in DOMAIN new}
               IN /\ "application.deploy" \notin cmds
                  /\ "application.deletePreview" \notin cmds
                  /\ (\E i \in DOMAIN new : new[i].cmd = "git push origin main" /\ new[i].ok)
                       => new[Len(new)].cmd = "successfully deployed"
                  /\ tasks' = tasks]_vars

C15_Witness ==
  \E t \in TaskIds :
    /\ ~HasAppId(tasks[t].projectPath) \/ ~apiKey
    /\ tasks[t].status = "completed"
    /\ tasks[t].branchName # NULL
    /\ tasks[t].error = NULL
    /\ "previewDeployment.all" \notin EngineCmds(t)
    /\ "successfully deployed" \in RCmds(t)
    /\ "application.deploy" \notin RCmds(t)

\* C16: in every state and for every task branchName is non-null if and only if
\* commitHash is non-null, and no step (runner write, cancel, approve, reject,
\* handler run) changes either of them once it is set, so neither goes back to null.
C16_BranchAndHashTogether ==
  /\ [](\A t \in TaskIds : (tasks[t].branchName # NULL) <=> (tasks[t].commitHash # NULL))
  /\ [][\A t \in TaskIds :
          /\ tasks[t].branchName # NULL => tasks'[t].branchName = tasks[t].branchName
          /\ tasks[t].commitHash # NULL => tasks'[t].commitHash = tasks[t].commitHash]_vars

C16_Witness ==
  \E t \in TaskIds :
    /\ tasks[t].branchName = "agent/1" /\ tasks[t].commitHash = "abc1234"
    /\ tasks[t].status = "failed"
    /\ t \in seenReview
    /\ "cleanup completed" \in RCmds(t)

\* C17: in every state a task with a non-null prUrl or prNumber has a non-null
\* branchName and commitHash.
C17_PrNeedsBranch ==
  \A t \in TaskIds :
    (tasks[t].prUrl # NULL \/ tasks[t].prNumber # NULLN)
      => (tasks[t].branchName # NULL /\ tasks[t].commitHash # NULL)

C17_Witness ==
  \E t \in TaskIds :
    /\ tasks[t].prUrl = PrUrl /\ tasks[t].prNumber = 7
    /\ tasks[t].branchName = "agent/1" /\ tasks[t].commitHash = "abc1234"

\* C18: in every state a task with a non-null previewUrl or previewDeploymentId has
\* a non-null prUrl.
C18_PreviewNeedsPr ==
  \A t \in TaskIds :
    (tasks[t].previewUrl # NULL \/ tasks[t].previewDeploymentId # NULL)
      => tasks[t].prUrl # NULL

\* C19 as stated: in every state every task whose status is not pending has a
\* non-null output or a non-null error.
C19_Original ==
  \A t \in TaskIds :
    (Exists(t) /\ tasks[t].status # "pending")
      => (tasks[t].output # NULL \/ tasks[t].error # NULL)

\* C19 as amended: in every state every task whose status is review, completed or
\* failed has a non-null output or a non-null error.
C19_OutputOrError ==
  \A t \in TaskIds :
    tasks[t].status \in {"review", "completed", "failed"}
      => (tasks[t].output # NULL \/ tasks[t].error # NULL)

C19_Witness ==
  /\ \E t \in TaskIds : tasks[t].status = "completed" /\ tasks[t].output # NULL
                          /\ tasks[t].error = NULL /\ tasks[t].branchName = NULL
  /\ \E t \in TaskIds : tasks[t].status = "failed" /\ tasks[t].output # NULL
                          /\ tasks[t].error # NULL

\* C20 as stated: for every task whose status has left pending, exactly one of
\* output and error is non-empty.
NonEmpty(v) == v \notin {NULL, ""}

C21_Original ==
  \A t \in TaskIds :
    tasks[t].status \in {"review", "completed", "failed"}
      => (tasks[t].branchName # NULL /\ tasks[t].commitHash # NULL)

\* C21 as amended: in every state every task whose status is review has a non-null
\* branchName and a non-null commitHash, and so has every task that was shown
\* in review and approved or rejected afterwards.
C21_ReviewHasBranch ==
  \A t \in TaskIds :
    (tasks[t].status = "review" \/ (t \in seenReview /\ tasks[t].status \in {"completed", "failed"}))
      => (tasks[t].branchName # NULL /\ tasks[t].commitHash # NULL)

C21_Witness ==
  /\ \E t \in TaskIds : tasks[t].status = "review" /\ tasks[t].branchName = featureBranch(t)
                          /\ tasks[t].commitHash = "abc1234"
  /\ \E t \in TaskIds : tasks[t].status = "failed" /\ tasks[t].branchName = NULL
                          /\ tasks[t].commitHash = NULL

C23_SingleWrite ==
  /\ [](\A t \in TaskIds : tasks[t].status = "review" => tasks[t].output # NULL)
  /\ [][\A e \in EngineIds :
          /\ (pc[e] \in {"agent", "git", "preview"} /\ <<pc[e], loc[e]>>' # <<pc[e], loc[e]>>)
               => tasks' = tasks
          /\ (LastWrite(e) /\ tasks'[cur[e]].status = "review")
               => /\ tasks[cur[e]].output = NULL
                  /\ \A a \in AgentEntry(cur[e]) : tasks'[cur[e]].output = a.out
                  /\ tasks'[cur[e]].branchName = loc[e].git.branchName
                  /\ tasks'[cur[e]].commitHash = loc[e].git.commitHash
                  /\ tasks'[cur[e]].prUrl = IF loc[e].git.prUrl = UNDEF THEN NULL
                                            ELSE loc[e].git.prUrl]_vars

C23_Witness ==
  \E t \in TaskIds :
    /\ tasks[t].status = "review"
    /\ tasks[t].output = "" /\ tasks[t].prUrl = PrUrl
    /\ Succeeded(t, "git push")

\* C24: in every state a task whose status is running, review, completed or failed
\* has startedAt set, and a task whose status is completed or failed has
\* completedAt set, whether the runner or the approve or reject mutation wrote it.
C24_Stamps ==
  \A t \in TaskIds :
    /\ tasks[t].status \in {"running", "review", "completed", "failed"} => tasks[t].startedAt
    /\ tasks[t].status \in {"completed", "failed"} => tasks[t].completedAt

C24_Witness ==
  /\ \E t \in TaskIds : tasks[t].status = "completed" /\ t \in approved
                          /\ tasks[t].startedAt /\ tasks[t].completedAt
  /\ \E t \in TaskIds : tasks[t].status = "failed" /\ t \notin seenReview
                          /\ tasks[t].startedAt /\ tasks[t].completedAt

\* C25: whenever an error thrown while a claimed task is processed has taken the
\* runner into its catch block, the runner leaves the block with the task written
\* as failed and the error's message in error, and it is back at its poll.
C25_CaughtAndFailed ==
  [][\A e \in EngineIds :
       (pc[e] = "catch" /\ pc'[e] # "catch")
         => /\ pc'[e] = "poll"
            /\ tasks'[cur[e]].status = "failed"
            /\ tasks'[cur[e]].error = loc[e].thrown]_vars

\* C26: no self-healing. The runner selects only a task whose stored status is
\* pending; no step of the runner or of the handler turns a status into pending;
\* so a task that is running while no runner holds it (its runner was killed) is
\* never selected again and keeps the status running until a mutation of the
\* router (here cancel) changes it.
C26_NoSelfHealing ==
  [][/\ \A e \in EngineIds :
          (cur'[e] # cur[e] /\ cur'[e] # 0) => tasks[cur'[e]].status = "pending"
     /\ \A t \in TaskIds :
          /\ (tasks'[t].status = "pending" /\ tasks[t].status # "pending")
               => (tasks[t].status = "absent" /\ clock' = clock + 1)
          /\ (tasks[t].status = "running" /\ t \notin InFlight)
               => /\ t \notin InFlight'
                  /\ tasks'[t].status \in {"running", "cancelled"}
                  /\ tasks'[t].status = "cancelled" => ops' = ops /\ rops' = rops /\ pc' = pc]_vars

C26_Witness ==
  \E t \in TaskIds :
    /\ tasks[t].status = "running" /\ t \notin InFlight
    /\ AgentEntry(t) # {}
    /\ pc[1] = "poll"
    /\ runs = MaxRuns /\ rpc = "idle"

\* C27: a task whose status is failed has a non-empty error. Every step that
\* writes failed writes the causing text with it: the runner's last write the
\* agent's or the git step's text (the text "Exit code: <code>" when the agent
\* exited with a non-zero code and an empty stderr), the catch block the message
\* of the thrown error, and reject the given reason or its default text.
C27_FailedHasCause ==
  /\ [](\A t \in TaskIds : tasks[t].status = "failed" => NonEmpty(tasks[t].error))
  /\ [][/\ \A e \in EngineIds :
             /\ (pc[e] = "catch" /\ pc'[e] = "poll" /\ tasks' # tasks)
                  => (tasks'[cur[e]].status = "failed" /\ tasks'[cur[e]].error = loc[e].thrown)
             /\ (LastWrite(e) /\ tasks'[cur[e]].status = "failed")
                  => /\ tasks'[cur[e]].error \in {loc[e].result.error, loc[e].git.error}
                     /\ \A a \in AgentEntry(cur[e]) :
                          (~a.ok /\ a.err = "") => tasks'[cur[e]].error = "Exit code: 1"
        /\ \A t \in TaskIds :
             (pc' = pc /\ tasks[t].status # "failed" /\ tasks'[t].status = "failed")
               => tasks'[t].error \in (RejectReasons \ {""}) \cup {"Task rejected during review"}]_vars

C27_Witness ==
  \E t \in TaskIds :
    /\ tasks[t].status = "failed"
    /\ t \in seenReview
    /\ tasks[t].error = "Task rejected during review"
    /\ Succeeded(t, "git push")

\* The commands of the latest handler run for a task, in the order they ran.
RSeq(log) == [i \in DOMAIN log |-> log[i].cmd]
MergeSteps == <<"git checkout main", "git pull origin main", "git merge", "git push origin main">>
ApproveSteps ==
  MergeSteps \o <<"git branch -d", "git push origin --delete", "application.deploy",
                  "application.deletePreview", "successfully deployed">>
AfterMerge == {ApproveSteps[i] : i \in DOMAIN ApproveSteps} \ {MergeSteps[i] : i \in DOMAIN MergeSteps}

\* C28: approve path gating. One processApprovedTask call runs checkout of main,
\* pull, merge of the feature branch and push of main in this order; if one of
\* them fails it is the last command of that call, so no branch deletion, no
\* production deployment and no preview deletion follows, and application.deploy
\* is posted only after the push of main has succeeded in the same call.
C28_ApproveGating ==
  [][\A r \in rqueue \ rqueue' :
       rpc = "approved"
         => LET new == rops'[r.id] IN
            /\ Len(new) >= 1
            /\ \A i \in DOMAIN new : i <= Len(MergeSteps) => new[i].cmd = MergeSteps[i]
            /\ \A i \in DOMAIN new :
                 (i <= Len(MergeSteps) /\ ~new[i].ok)
                   => /\ Len(new) = i
                      /\ deployed' = deployed
                      /\ \A j \in DOMAIN new : new[j].cmd \notin AfterMerge
            /\ \A i \in DOMAIN new :
                 new[i].cmd = "application.deploy"
                   => /\ i > Len(MergeSteps)
                      /\ \A j \in 1..Len(MergeSteps) : new[j].ok
            /\ deployed'[r.id] # deployed[r.id]
                 => \E i \in DOMAIN new : new[i].cmd = "application.deploy" /\ new[i].ok]_vars

C28_Witness ==
  \E t \in TaskIds :
    /\ tasks[t].status = "completed"
    /\ RSeq(rops[t]) = MergeSteps
    /\ ~rops[t][Len(rops[t])].ok
    /\ merged[t] = 1 /\ deployed[t] = 0

\* C29: approve-path scenario. For a completed row with branchName, commitHash and
\* previewDeploymentId set, a mapped project path and an API key, a
\* processApprovedTask call in which the four merge steps and the deployment
\* request succeed runs, in this order: checkout, pull, merge, push of main,
\* branch -d, push --delete of the feature branch, application.deploy and
\* application.deletePreview, and ends with its success message.
C29_ApproveScenario ==
  [][\A r \in rqueue \ rqueue' :
       LET new == rops'[r.id] IN
       (/\ rpc = "approved"
        /\ Truthy(r.branchName) /\ Truthy(r.previewDeploymentId)
        /\ DeployRequested(tasks[r.id].projectPath, apiKey)
        /\ \A i \in DOMAIN new :
             new[i].cmd \in {MergeSteps[j] : j \in DOMAIN MergeSteps} \cup {"application.deploy"}
               => new[i].ok)
         => /\ RSeq(new) = ApproveSteps
            /\ merged'[r.id] = merged[r.id] + 1
            /\ deployed'[r.id] = deployed[r.id] + 1
            /\ tasks' = tasks]_vars

C29_Witness ==
  \E t \in TaskIds :
    /\ tasks[t].status = "completed" /\ t \in approved
    /\ tasks[t].previewDeploymentId = previewDeploymentId(tasks[t].branchName)
    /\ HasAppId(tasks[t].projectPath) /\ apiKey
    /\ RSeq(rops[t]) = ApproveSteps
    /\ \A i \in DOMAIN rops[t] : rops[t][i].ok
    /\ merged[t] = 1 /\ deployed[t] = 1

\* C30: no status regression. No step of the review workflow handler changes a
\* row of the task store, whatever its merge, deployment and cleanup steps do: a
\* task whose merge failed stays completed and a rejected task stays failed.
C30_HandlerFrame ==
  [][(<<rpc, rqueue, runs, rops, merged, deployed>>' # <<rpc, rqueue, runs, rops, merged, deployed>>)
       => tasks' = tasks]_vars

C30_Witness ==
  /\ rpc = "idle" /\ runs = MaxRuns
  /\ \E t \in TaskIds :
       /\ tasks[t].status = "completed"
       /\ rops[t] # <<>>
       /\ rops[t][Len(rops[t])].cmd = "git merge" /\ ~rops[t][Len(rops[t])].ok

\* The rows processRejectedTask can be given: each column set or null.
RejectedRows ==
  [id : TaskIds, branchName : {NULL, featureBranch(1)},
   previewDeploymentId : {NULL, previewDeploymentId(featureBranch(1))}]
CmdsOf(log) == {log[i].cmd : i \in DOMAIN log}

C32_RerunTolerated ==
  /\ [](rpc # "idle" => ENABLED Resolver)
  /\ [][\A r \in rqueue \ rqueue' :
          (repo[r.id] \cap {"local branch gone", "upstream branch gone", "preview gone"} # {})
            => LET new == rops'[r.id] IN
               /\ rqueue' = rqueue \ {r}
               /\ rpc' = rpc
               /\ tasks' = tasks
               /\ new # <<>>
               /\ rpc = "approved" /\ "local branch gone" \in repo[r.id]
                    => new[Len(new)].cmd = "git merge" /\ ~new[Len(new)].ok
               /\ rpc = "rejected"
                    => /\ new[Len(new)].cmd = "cleanup completed"
                       /\ \A i \in DOMAIN new :
                            (new[i].cmd = "git push origin --delete"
                               /\ "upstream branch gone" \in repo[r.id]) => ~new[i].ok]_vars

C32_Witness ==
  /\ rpc = "idle" /\ runs = MaxReruns
  /\ \E t \in TaskIds :
       /\ tasks[t].status = "failed"
       /\ RSeq(rops[t]) = <<"application.deletePreview", "git push origin --delete",
                            "cleanup completed">>
       /\ \A i \in DOMAIN rops[t] : rops[t][i].ok <=> i = Len(rops[t])

\* C33: progress. With one runner whose loop keeps running, every pending task is
\* eventually running unless it is cancelled, and every running task eventually
\* has status review, completed or failed unless it is cancelled.
C33_Progress ==
  \A t \in TaskIds :
    /\ (tasks[t].status = "pending") ~> (tasks[t].status \in {"running", "cancelled"})
    /\ (tasks[t].status = "running")
         ~> (tasks[t].status \in {"review", "completed", "failed", "cancelled"})

\* The branch the runner was on when it made the task's feature branch, which is
\* also the base of the task's pull request.
BaseOf(t) ==
  {ops[t][i].out : i \in {j \in DOMAIN ops[t] : ops[t][j].cmd = "git rev-parse --abbrev-ref HEAD"}}

\* C34: when the handler processes an approved row, the branch it checks out,
\* pulls, merges into and pushes is the branch the runner made the task's feature
\* branch from.
C34_SameBase ==
  [][\A r \in rqueue \ rqueue' :
       rpc = "approved"
         => \A b \in BaseOf(r.id) :
              \A i \in DOMAIN MergeSteps :
                i \in DOMAIN rops'[r.id]
                  => rops'[r.id][i].cmd \in {"git checkout " \o b, "git pull origin " \o b,
                                             "git merge", "git push origin " \o b}]_vars

\* C35: task isolation on a shared project path. The commit made for a task holds
\* the edits of that task's own agent run and no edits that the run of another
\* task left in the working directory.
C35_Isolation ==
  \A t \in TaskIds : work.commit[t] \subseteq {t}

\* C36: the handler's reject path (preview deletion and upstream branch deletion)
\* processes only rows that were rejected on the page out of review; it never
\* processes a row that the runner itself wrote as failed, such as one whose
\* push failed.
C36_RejectOnlyRejected ==
  [][\A r \in rqueue \ rqueue' :
       rpc = "rejected"
         => /\ r.id \in seenReview
            /\ ~Failed(r.id, "git push")]_vars

\* C37: a recorded review decision is final. A task that approve set to completed
\* stays completed, and a task that reject set to failed stays failed, whatever
\* the reviewers' pages and the handler do afterwards.
C37_DecisionFinal ==
  [][\A t \in TaskIds :
       /\ (t \in approved /\ tasks[t].status = "completed")
            => tasks'[t].status = "completed"
       /\ (t \in seenReview /\ tasks[t].status = "failed")
            => tasks'[t].status = "failed"]_vars

HandlerGit ==
  {MergeSteps[i] : i \in DOMAIN MergeSteps} \cup {"git branch -d", "git push origin --delete"}

\* C38: the handler runs no git command (checkout, pull, merge, push, branch
\* deletion) in a project's working directory while an agent runner holds a
\* task of the same project path between its claim write and its final write.
C38_NoGitWhileInFlight ==
  [][\A r \in rqueue \ rqueue' :
       CmdsOf(rops'[r.id]) \cap HandlerGit # {}
         => \A e \in engines :
              pc[e] \notin {"poll", "claim"}
                => tasks[cur[e]].projectPath # tasks[r.id].projectPath]_vars

\* C39: over any number of handler runs an approved task is merged into the base
\* branch at most once and has a production deployment triggered at most once: a
\* run that makes a merge commit for a row finds no earlier merge of it, and a
\* run that posts application.deploy for a row finds no earlier deployment of it.
C39_AtMostOnce ==
  [][\A r \in rqueue \ rqueue' :
       rpc = "approved"
         => \A i \in DOMAIN rops'[r.id] :
              /\ (rops'[r.id][i].cmd = "git merge" /\ rops'[r.id][i].ok
                    /\ rops'[r.id][i].out # "Already up to date.")
                   => "merged" \notin repo[r.id]
              /\ (rops'[r.id][i].cmd = "application.deploy" /\ rops'[r.id][i].ok)
                   => deployed[r.id] = 0]_vars

\* C40: a pushed branch is never left unrecorded. When `git push -u origin` of a
\* task's feature branch succeeded, the runner's final write for that task is
\* status review with that branchName and a commitHash; it is never completed or
\* failed with a null branchName.
C40_PushedIsRecorded ==
  [][\A e \in EngineIds :
       (LastWrite(e) /\ Succeeded(cur[e], "git push"))
         => LET t == cur[e]
                row == tasks'[t]
            IN /\ row.status = "review"
               /\ row.branchName = featureBranch(t)
               /\ row.commitHash \notin {NULL, ""}]_vars

====
